---- MODULE Spec2Model ----
(***************************************************************************)
(* libsaxbospiral: the spiral ("figure") data model, its initialisation    *)
(* from input bytes (initialise.c) and the solver (solve.c): the           *)
(* backtracking sxbp_resize_spiral, its collision test, its length         *)
(* suggestion and the driver sxbp_plot_spiral.                             *)
(*                                                                         *)
(* Arrays keep the source's zero-based indices: `lines' is a function on   *)
(* 0..size-1, the co-ord cache a sequence read through At(_, i).           *)
(* The CPU-time odometer (current_clock_ticks, elapsed_clock_ticks,        *)
(* seconds_spent, seconds_accuracy) reads clock() and feeds nothing back   *)
(* into the solver; it is not part of the state modelled here.             *)
(***************************************************************************)
EXTENDS Integers, Sequences, FiniteSets, TLC

(* ------------------------------ bounds -------------------------------- *)

\* longest input buffer, in bytes
MaxBytes == 1

\* largest perfection threshold passed to sxbp_plot_spiral
MaxThreshold == 2

\* no step of the model writes a line length above this
MaxLength == 24

\* the max_line of a partial sxbp_plot_spiral call
PartialLine == 5

\* direct calls of sxbp_resize_spiral on one spiral
MaxResizes == 1

\* longest length passed to a direct call of sxbp_resize_spiral
MaxResizeLength == 2

\* most segment records in the data section of a file read from outside
MaxRecords == 2

\* values of the byte of a buffer of the specification with direct resizes,
\* and of the first byte of the longer buffers of the liveness specification
ResizeBytes == {0, 85}

\* values of the byte of a one-byte input buffer: all of them
FirstBytes == 0..255

\* values of the first byte of a longer input buffer
LongFirstBytes == {0, 1, 5, 15, 21, 23, 36, 42, 51, 65, 80, 83, 85, 88, 102,
                   119, 127, 128, 144, 153, 170, 187, 204, 219, 231, 240, 248,
                   254, 255}

\* values of the bytes after the first
LaterBytes == {0, 85}

(* --------------------------- program constants ------------------------ *)

SXBP_UP == 0
SXBP_RIGHT == 1
SXBP_DOWN == 2
SXBP_LEFT == 3

CLOCKWISE == 1
ANTI_CLOCKWISE == -1

\* width of the length bit-field of a line
LengthBits == 30

\* unit vector of each direction
VECTOR_DIRECTIONS == [d \in 0..3 |->
    CASE d = SXBP_UP -> <<0, 1>>
      [] d = SXBP_RIGHT -> <<1, 0>>
      [] d = SXBP_DOWN -> <<0, -1>>
      [] d = SXBP_LEFT -> <<-1, 0>>]

(* ------------------------------ helpers ------------------------------- *)

Min(a, b) == IF a < b THEN a ELSE b

At(s, i) == s[i + 1]

\* Op applied to the value of x: x is evaluated once, before Op is entered
\* (a C local that is assigned once and then read several times)
Strict(x, Op(_)) == CHOOSE r \in {Op(y) : y \in {x}} : TRUE

\* x converted to unsigned int (mod 2^32) and reduced modulo m, computed on
\* the two 16-bit halves of the converted value
UnsignedMod(x, m) ==
    LET lo == x % 65536
        hi == (x \div 65536) % 65536
    IN  (((hi % m) * (65536 % m)) + (lo % m)) % m

\* a value stored into the 30-bit length field
StoreLength(v) == v % (2 ^ LengthBits)

\* the turn is off by one: clockwise becomes a half turn
SkewedChangeDirection(current, turn) == UnsignedMod(current + turn + 1, 4)

\* the remainder is taken in int, where it has the sign of the sum, and the
\* result converted to the 8-bit unsigned direction type
SignedChangeDirection(current, turn) ==
    LET sum == current + turn
        rem == IF sum < 0 THEN 0 - ((0 - sum) % 4) ELSE sum % 4
    IN  rem % 256

\* sxbp_change_direction: (current + turn) % 4U
sxbp_change_direction(current, turn) == UnsignedMod(current + turn, 4)

\* the bits of a byte read from the least significant end
LsbFirstBitOf(byte, b) == (byte \div (2 ^ b)) % 2

\* bit b (0 = most significant) of a byte: (byte & (1 << e)) >> e, e = 7 - b
BitOf(byte, b) == (byte \div (2 ^ (7 - b))) % 2


\* direction of line `index' after sxbp_init_spiral: the running `current' of
\* the byte loop (s) and bit loop (b), index = (s * 8) + b + 1
RECURSIVE DirectionOfLine(_, _)
DirectionOfLine(bytes, index) ==
    IF index = 0
    THEN SXBP_UP
    ELSE LET s == (index - 1) \div 8
             b == (index - 1) % 8
             bit == BitOf(bytes[s + 1], b)
             rotation == IF bit = 0 THEN CLOCKWISE ELSE ANTI_CLOCKWISE
         IN  sxbp_change_direction(DirectionOfLine(bytes, index - 1), rotation)

\* the first UP line is not counted
BitsOnlyLineCount(bytes) == Len(bytes) * 8

\* number of lines: number of bits of the data, + 1 for the first UP line
LineCount(bytes) == (Len(bytes) * 8) + 1

\* the lines array sxbp_init_spiral leaves behind: every length is set to 0
InitLines(bytes) ==
    [index \in 0..(LineCount(bytes) - 1) |->
        [direction |-> DirectionOfLine(bytes, index), length |-> 0]]

(* --------------------------- co-ord cache ----------------------------- *)

\* sxbp_sum_lines: sum of the lengths of lines start..end-1
RECURSIVE sxbp_sum_lines(_, _, _)
sxbp_sum_lines(lns, start, end) ==
    IF start >= end
    THEN 0
    ELSE Strict(<<lns, start + 1, end>>,
                LAMBDA a : lns[start].length + sxbp_sum_lines(a[1], a[2], a[3]))

\* the `n' unit steps from `current' (exclusive) along `vector'
RECURSIVE Steps(_, _, _)
Steps(current, vector, n) ==
    IF n = 0
    THEN << >>
    ELSE Strict(<<<<current[1] + vector[1], current[2] + vector[2]>>, vector, n - 1>>,
                LAMBDA a : <<a[1]>> \o Steps(a[1], a[2], a[3]))

\* sxbp_spiral_points: every unit-step vertex of lines start..end-1, walked
\* from `current' (which is not repeated in the result)
RECURSIVE sxbp_spiral_points(_, _, _, _)
sxbp_spiral_points(lns, current, start, end) ==
    IF start >= end
    THEN << >>
    ELSE Strict(<<Steps(current, VECTOR_DIRECTIONS[lns[start].direction],
                        lns[start].length),
                  lns, current, start + 1, end>>,
                LAMBDA a :
                    a[1] \o sxbp_spiral_points(
                        a[2], IF a[1] = << >> THEN a[3] ELSE a[1][Len(a[1])],
                        a[4], a[5]))

\* sxbp_cache_spiral_points(spiral, limit): the cache after it has been
\* extended through line limit-1. Vertices of lines below the validity
\* watermark are kept, the rest is walked again from the last kept vertex.
sxbp_cache_spiral_points(lns, cache, limit) ==
    IF cache.validity >= limit
    THEN cache
    ELSE LET kept == sxbp_sum_lines(lns, 0, cache.validity) + 1
             known == IF cache.validity = 0
                      THEN << <<0, 0>> >>
                      ELSE SubSeq(cache.co_ords, 1, kept)
         IN  Strict(known[Len(known)],
                    LAMBDA current :
                        [co_ords |-> known \o sxbp_spiral_points(
                                         lns, current, cache.validity, limit),
                         validity |-> limit])

(* -------------------------- collision test ---------------------------- *)

\* the inner loop compares the x co-ordinates only
XOnlyHitsLastLine(co_ords, i, start_of_last_line, last_co_ord) ==
    \E j \in start_of_last_line..(last_co_ord - 1) :
        At(co_ords, i)[1] = At(co_ords, j)[1]

\* the inner loop stops one co-ord early
ShortHitsLastLine(co_ords, i, start_of_last_line, last_co_ord) ==
    \E j \in start_of_last_line..(last_co_ord - 2) :
        /\ At(co_ords, i)[1] = At(co_ords, j)[1]
        /\ At(co_ords, i)[2] = At(co_ords, j)[2]

\* the inner loop of spiral_collides: is co-ord i one of the co-ords
\* start_of_last_line..last_co_ord-1 of the last line?
HitsLastLine(co_ords, i, start_of_last_line, last_co_ord) ==
    \E j \in start_of_last_line..(last_co_ord - 1) :
        /\ At(co_ords, i)[1] = At(co_ords, j)[1]
        /\ At(co_ords, i)[2] = At(co_ords, j)[2]

\* the loop stops one line earlier, before the line three lines before the
\* last one of the spiral
StopsBeforeEarlierLine(size) == size - 3 - 1

\* if(line_count == (spiral->size - 2 - 1)) break: the line at which the
\* outer loop of spiral_collides stops
StopsBeforeLine(size) == size - 2 - 1

\* the outer loop of spiral_collides from co-ord i on, with the line counter
\* and the ttl of the counted line. ttl is an unsigned counter that is
\* decremented and compared with 0 only: a ttl that wraps below 0 does not
\* come back to 0 within the loop, and is kept here as a negative number.
RECURSIVE CollidesFrom(_, _, _, _, _, _, _, _)
CollidesFrom(lns, size, co_ords, start_of_last_line, last_co_ord, i, line_count, ttl) ==
    IF i >= start_of_last_line
    THEN [collides |-> FALSE, collider |-> -1]
    ELSE IF HitsLastLine(co_ords, i, start_of_last_line, last_co_ord)
    THEN [collides |-> TRUE, collider |-> line_count]
    ELSE LET ttl1 == ttl - 1
             line_count1 == IF ttl1 = 0 THEN line_count + 1 ELSE line_count
             ttl2 == IF ttl1 = 0 THEN lns[line_count1].length ELSE ttl1
         IN  Strict(<<line_count1, ttl2, lns, size, co_ords, start_of_last_line,
                      last_co_ord, i + 1>>,
                    LAMBDA n :
                        IF n[1] = StopsBeforeLine(n[4])
                        THEN [collides |-> FALSE, collider |-> -1]
                        ELSE CollidesFrom(n[3], n[4], n[5], n[6], n[7], n[8],
                                          n[1], n[2]))

\* the line counter starts with the ttl of line 0 one short: the vertex at
\* which a line turns into the next is counted with the next line
LateCountSpiralCollides(lns, size, co_ords, index) ==
    IF size < 4
    THEN [collides |-> FALSE, collider |-> -1]
    ELSE LET last_co_ord == Len(co_ords)
             start_of_last_line == (last_co_ord - lns[index].length) - 1
         IN  Strict(<<lns, size, co_ords, start_of_last_line, last_co_ord>>,
                    LAMBDA a : CollidesFrom(a[1], a[2], a[3], a[4], a[5],
                                            0, 0, a[1][0].length))

\* spiral_collides(spiral, index): the returned boolean, and the collider it
\* stores (collider -1: the collider field is left as it was)
spiral_collides(lns, size, co_ords, index) ==
    IF size < 4
    THEN [collides |-> FALSE, collider |-> -1]
    ELSE LET last_co_ord == Len(co_ords)
             start_of_last_line == (last_co_ord - lns[index].length) - 1
         IN  Strict(<<lns, size, co_ords, start_of_last_line, last_co_ord>>,
                    LAMBDA a : CollidesFrom(a[1], a[2], a[3], a[4], a[5],
                                            0, 0, a[1][0].length + 1))

(* ------------------------- length suggestion -------------------------- *)

\* the suggestion never grows the previous line
SameLengthSuggestResize(lns, co_ords, collides, collider, index, perfection_threshold) ==
    lns[index - 1].length

\* the suggestion shortens the previous line
ShorterSuggestResize(lns, co_ords, collides, collider, index, perfection_threshold) ==
    lns[index - 1].length - 1

\* a threshold of 0 bars the rules for parallel lines as well
AboveOrNoThreshold(length, perfection_threshold) ==
    (perfection_threshold = 0) \/ (length > perfection_threshold)

\* (perfection_threshold > 0) && (spiral.lines[index].length >
\* perfection_threshold)
AboveThreshold(length, perfection_threshold) ==
    (perfection_threshold > 0) /\ (length > perfection_threshold)

\* suggest_resize(spiral, index, perfection_threshold), before the result
\* is narrowed to the 30-bit length field
suggest_resize(lns, co_ords, collides, collider, index, perfection_threshold) ==
    IF collides
    THEN IF AboveThreshold(lns[index].length, perfection_threshold)
         THEN lns[index - 1].length + 1
         ELSE LET p == lns[index - 1]
                  r == lns[collider]
              IN  IF (p.direction % 2) # (r.direction % 2)
                  THEN lns[index - 1].length + 1
                  ELSE LET p_index == sxbp_sum_lines(lns, 0, index - 1)
                           r_index == sxbp_sum_lines(lns, 0, collider)
                           pa == At(co_ords, p_index)
                           ra == At(co_ords, r_index)
                           rb == At(co_ords, r_index + r.length)
                       IN  CASE (p.direction = SXBP_UP) /\ (r.direction = SXBP_UP) ->
                                    (ra[2] - pa[2]) + r.length + 1
                             [] (p.direction = SXBP_UP) /\ (r.direction = SXBP_DOWN) ->
                                    (rb[2] - pa[2]) + r.length + 1
                             [] (p.direction = SXBP_RIGHT) /\ (r.direction = SXBP_RIGHT) ->
                                    (ra[1] - pa[1]) + r.length + 1
                             [] (p.direction = SXBP_RIGHT) /\ (r.direction = SXBP_LEFT) ->
                                    (rb[1] - pa[1]) + r.length + 1
                             [] (p.direction = SXBP_DOWN) /\ (r.direction = SXBP_UP) ->
                                    (pa[2] - rb[2]) + r.length + 1
                             [] (p.direction = SXBP_DOWN) /\ (r.direction = SXBP_DOWN) ->
                                    (pa[2] - ra[2]) + r.length + 1
                             [] (p.direction = SXBP_LEFT) /\ (r.direction = SXBP_RIGHT) ->
                                    (pa[1] - rb[1]) + r.length + 1
                             [] (p.direction = SXBP_LEFT) /\ (r.direction = SXBP_LEFT) ->
                                    (pa[1] - ra[1]) + r.length + 1
                             [] OTHER -> lns[index - 1].length + 1
    ELSE lns[index - 1].length

(* ------------------------------- state -------------------------------- *)

VARIABLES
    size,                 \* spiral->size
    lines,                \* spiral->lines
    co_ord_cache,         \* spiral->co_ord_cache: co_ords and validity
    collides,             \* spiral->collides
    collider,             \* spiral->collider
    solved_count,         \* spiral->solved_count
    pc,                   \* where the program is: "blank", "idle" (between
                          \* calls), "loop", "resize", "resized", "callback",
                          \* "failed" (a call returned an error and the
                          \* calling program gave up)
    caller,               \* who called sxbp_resize_spiral: "plot" or "user"
    perfection_threshold, \* argument of sxbp_plot_spiral / sxbp_resize_spiral
    max_line,             \* argument of sxbp_plot_spiral
    progress_callback,    \* argument of sxbp_plot_spiral: TRUE unless NULL
    max_index,            \* local of sxbp_plot_spiral
    i,                    \* loop variable of sxbp_plot_spiral
    index,                \* argument of sxbp_resize_spiral
    current_index,        \* local of sxbp_resize_spiral
    current_length,       \* local of sxbp_resize_spiral
    result,               \* status returned by the last call that returned
    data,                 \* the buffer the spiral was initialised from
    cb_log,               \* (latest_line, target_line) of every invocation of
                          \* the progress callback by the call in progress
    resizes,              \* direct calls of sxbp_resize_spiral so far
    cancel_requested,     \* progress_callback_user_data: the callback noted
                          \* there that it wants the call to stop
    serialised,           \* bytes of the buffer that dump_spiral wrote or
                          \* that load_spiral is given
    dumped,               \* the figure that serialised is the dump of, or
                          \* NoFigure
    diagnostic            \* deserialise_diagnostic_t that load_spiral returned
                          \* for serialised, NONE before it is called

\* no figure has been dumped into serialised
NoFigure == [size |-> 0, lines |-> << >>]

spiral == <<size, lines, co_ord_cache, collides, collider, solved_count>>
plot_locals == <<perfection_threshold, max_line, progress_callback, max_index, i>>
resize_locals == <<caller, index, current_index, current_length>>
file_vars == <<serialised, dumped, diagnostic>>
vars == <<spiral, pc, plot_locals, resize_locals, result, data, cb_log, resizes,
          cancel_requested, file_vars>>

\* input buffers: any first byte of FirstBytes, then bytes of LaterBytes
Inputs ==
    UNION {{s \in [1..n -> LongFirstBytes \cup LaterBytes] :
               \A k \in 1..n : IF k = 1 THEN s[k] \in LongFirstBytes
                                        ELSE s[k] \in LaterBytes} :
           n \in 0..MaxBytes}
    \cup {<<b>> : b \in FirstBytes}

Thresholds == 0..MaxThreshold

\* the max_line arguments tried: nothing to do, a partial plot, and more
\* lines than the spiral has
MaxLines == {0, PartialLine, size + 1}

\* sxbp_blank_spiral, and no call in progress
Init ==
    /\ size = 0
    /\ lines = << >>
    /\ co_ord_cache = [co_ords |-> << >>, validity |-> 0]
    /\ collides = FALSE
    /\ collider = 0
    /\ solved_count = 0
    /\ pc = "blank"
    /\ caller = "none"
    /\ perfection_threshold = 0
    /\ max_line = 0
    /\ progress_callback = FALSE
    /\ max_index = 0
    /\ i = 0
    /\ index = 0
    /\ current_index = 0
    /\ current_length = 0
    /\ result = "NONE"
    /\ data = << >>
    /\ cb_log = << >>
    /\ resizes = 0
    /\ cancel_requested = FALSE
    /\ serialised = << >>
    /\ dumped = NoFigure
    /\ diagnostic = "NONE"

(* ------------------------------ actions ------------------------------- *)

\* sxbp_init_spiral(buffer, spiral) on a blank spiral (calloc succeeds)
BeginFigure(buffer) ==
    /\ pc = "blank"
    /\ size' = LineCount(buffer)
    /\ collides' = TRUE          \* spiral->collides = -1
    /\ lines' = InitLines(buffer)
    /\ result' = "OPERATION_OK"
    /\ data' = buffer
    /\ pc' = "idle"
    /\ UNCHANGED <<co_ord_cache, collider, solved_count, plot_locals,
                   resize_locals, cb_log, resizes, cancel_requested, file_vars>>

\* every call plots max_line lines, also where the spiral has fewer
UnsaturatedMaxIndex(max, sz) == max

\* index of highest line to plot: (max_line > spiral->size) ? spiral->size
\* : max_line
MaxIndex(max, sz) == IF max > sz THEN sz ELSE max

\* every call starts again at line 0
FirstLineZero(solved) == 0

\* the first line a call plots: i = spiral->solved_count
FirstLine(solved) == solved

\* sxbp_plot_spiral is called: up to the first test of its for loop
PlotSpiral(threshold, max, callback) ==
    /\ pc = "idle"
    /\ perfection_threshold' = threshold
    /\ max_line' = max
    /\ progress_callback' = callback
    /\ max_index' = MaxIndex(max, size)
    /\ i' = FirstLine(solved_count)
    /\ result' = "NONE"
    /\ cb_log' = << >>
    /\ pc' = "loop"
    /\ cancel_requested' = FALSE
    /\ UNCHANGED <<spiral, resize_locals, data, resizes, file_vars>>

\* the locals of a call that has returned
NoPlotLocals ==
    /\ perfection_threshold' = 0
    /\ max_line' = 0
    /\ progress_callback' = FALSE
    /\ max_index' = 0
    /\ i' = 0

NoResizeLocals ==
    /\ caller' = "none"
    /\ index' = 0
    /\ current_index' = 0
    /\ current_length' = 0

\* every line is asked to keep the length it has
KeptLength(line) == lines[line].length

\* the length sxbp_plot_spiral asks for: sxbp_resize_spiral(spiral, i, 1,
\* perfection_threshold)
RequestedLength(line) == 1

\* the test of the for loop of sxbp_plot_spiral: call
\* sxbp_resize_spiral(spiral, i, 1, perfection_threshold), or return
PlotLoop ==
    /\ pc = "loop"
    /\ IF i < max_index
       THEN /\ caller' = "plot"
            /\ index' = i
            /\ current_index' = i
            /\ current_length' = RequestedLength(i)
            /\ pc' = "resize"
            /\ UNCHANGED <<spiral, plot_locals, result, data, cb_log>>
       ELSE /\ result' = "OPERATION_OK"
            /\ pc' = "idle"
            /\ cb_log' = << >>
            /\ NoPlotLocals
            /\ UNCHANGED <<spiral, resize_locals, data>>
    /\ UNCHANGED <<resizes, cancel_requested, file_vars>>

\* the cache is taken to be valid as far as it was
KeptValidity(line, validity) == validity

\* spiral->co_ord_cache.validity = (current_index < spiral->co_ord_cache
\* .validity) ? current_index : spiral->co_ord_cache.validity
ClampedValidity(line, validity) == IF line < validity THEN line ELSE validity

\* the spiral after the writes of one iteration of the while loop of
\* sxbp_resize_spiral: the length, the validity clamp, the cache
ResizeWrites ==
    LET lines1 == [lines EXCEPT ![current_index].length = StoreLength(current_length)]
        validity1 == ClampedValidity(current_index, co_ord_cache.validity)
        clamped == [co_ord_cache EXCEPT !.validity = validity1]
    IN  Strict(<<lines1, clamped>>,
               LAMBDA w :
                   [lines |-> w[1],
                    clamped |-> w[2],
                    cache |-> sxbp_cache_spiral_points(w[1], w[2], current_index + 1)])

\* one iteration of the while loop of sxbp_resize_spiral
ResizeStep ==
    /\ pc = "resize"
    /\ StoreLength(current_length) <= MaxLength
    /\ \E w \in {ResizeWrites} :
       \E c \in {spiral_collides(w.lines, size, w.cache.co_ords, current_index)} :
           /\ lines' = w.lines
           /\ co_ord_cache' = w.cache
           /\ collides' = c.collides
           /\ collider' = IF c.collides THEN c.collider ELSE collider
           /\ IF c.collides
              THEN /\ current_length' = suggest_resize(w.lines, w.cache.co_ords,
                                            TRUE, c.collider, current_index,
                                            perfection_threshold)
                   /\ current_index' = current_index - 1
                   /\ UNCHANGED <<solved_count, pc, caller, index, plot_locals,
                                  result, cb_log>>
              ELSE IF current_index # index
              THEN /\ current_index' = current_index + 1
                   /\ current_length' = 1
                   /\ UNCHANGED <<solved_count, pc, caller, index, plot_locals,
                                  result, cb_log>>
              ELSE /\ solved_count' = index + 1
                   /\ result' = "OPERATION_OK"
                   /\ NoResizeLocals
                   /\ IF caller = "plot"
                      THEN /\ pc' = "resized"
                           /\ UNCHANGED <<plot_locals, cb_log>>
                      ELSE /\ pc' = "idle"
                           /\ perfection_threshold' = 0
                           /\ UNCHANGED <<max_line, progress_callback, max_index,
                                          i, cb_log>>
    /\ UNCHANGED <<size, data, resizes, cancel_requested, file_vars>>

\* the error is not looked at: the for loop goes on
ErrorIgnored(status) == FALSE

\* if(result != SXBP_OPERATION_OK) { return result; }
IsError(status) == status # "OPERATION_OK"

\* sxbp_cache_spiral_points refuses (no memory) in an iteration of the while
\* loop: the length is written and the validity clamped, the error is
\* returned by sxbp_resize_spiral and, through sxbp_plot_spiral, to the
\* program, which stops there (sxp.c: run() returns false)
ResizeFails ==
    /\ pc = "resize"
    /\ StoreLength(current_length) <= MaxLength
    /\ \E w \in {ResizeWrites} :
           /\ lines' = w.lines
           /\ co_ord_cache' = w.clamped
    /\ result' = "MALLOC_REFUSED"
    /\ pc' = IF IsError("MALLOC_REFUSED") THEN "failed" ELSE "resized"
    /\ UNCHANGED <<size, collides, collider, solved_count, plot_locals,
                   resize_locals, data, cb_log, resizes, cancel_requested, file_vars>>

\* sxbp_plot_spiral after sxbp_resize_spiral returned OK: the callback is
\* called if given
PlotResized ==
    /\ pc = "resized"
    /\ IF progress_callback
       THEN /\ cb_log' = Append(cb_log, <<i, max_index>>)
            /\ pc' = "callback"
            /\ UNCHANGED i
       ELSE /\ i' = i + 1
            /\ pc' = "loop"
            /\ UNCHANGED cb_log
    /\ UNCHANGED <<spiral, perfection_threshold, max_line, progress_callback,
                   max_index, resize_locals, result, data, resizes,
                   cancel_requested, file_vars>>

\* a callback that asked for it makes the call return
StopsWhenAsked(asked) == IF asked THEN "idle" ELSE "loop"

\* progress_callback(spiral, i, max_index, progress_callback_user_data) is
\* a statement of the for loop: whatever the callback did, the loop goes on
AfterCallback(asked) == "loop"

\* the progress callback returns: the for loop goes on
CallbackReturn ==
    /\ pc = "callback"
    /\ i' = i + 1
    /\ pc' = AfterCallback(cancel_requested)
    /\ UNCHANGED <<spiral, perfection_threshold, max_line, progress_callback,
                   max_index, resize_locals, result, data, cb_log, resizes,
                   cancel_requested, file_vars>>

\* the progress callback wants the call to stop and notes it in its user
\* data before it returns; it returns void, the for loop goes on
CallbackAsksCancel ==
    /\ pc = "callback"
    /\ cancel_requested' = TRUE
    /\ i' = i + 1
    /\ pc' = AfterCallback(TRUE)
    /\ UNCHANGED <<spiral, perfection_threshold, max_line, progress_callback,
                   max_index, resize_locals, result, data, cb_log, resizes,
                   file_vars>>

\* the program calls sxbp_resize_spiral(spiral, line, length, threshold)
\* itself: up to the first iteration of the while loop
PublicResize(line, length, threshold) ==
    /\ pc = "idle"
    /\ resizes < MaxResizes
    /\ line < size
    /\ resizes' = resizes + 1
    /\ caller' = "user"
    /\ index' = line
    /\ current_index' = line
    /\ current_length' = length
    /\ perfection_threshold' = threshold
    /\ result' = "NONE"
    /\ pc' = "resize"
    /\ UNCHANGED <<spiral, max_line, progress_callback, max_index, i, data,
                   cb_log, cancel_requested, file_vars>>

\* sxbp_plot_spiral(spiral, ...) on a blank spiral, whose lines are NULL and
\* whose size is 0. Built with assertions, assert(spiral->lines != NULL)
\* aborts the process; built with NDEBUG the assertion is gone, max_index
\* is 0, the for loop is not entered and the call returns OPERATION_OK.
PlotBlank(ndebug) ==
    /\ pc = "blank"
    /\ IF ndebug
       THEN /\ result' = "OPERATION_OK"
            /\ pc' = "blank"
       ELSE /\ result' = "ABORTED"
            /\ pc' = "aborted"
    /\ UNCHANGED <<spiral, plot_locals, resize_locals, data, cb_log, resizes,
                   cancel_requested, file_vars>>

\* the stub claims to have refined the figure
GrowFromStartSucceeds(figure, options) == "OPERATION_OK"

\* sxbp_refine_figure_grow_from_start(figure, options): a stub,
\* return SXBP_RESULT_FAIL_UNIMPLEMENTED;
sxbp_refine_figure_grow_from_start(figure, options) == "FAIL_UNIMPLEMENTED"

\* sxbp_refine_figure_grow_from_start is called on the figure
GrowFromStartCalled ==
    /\ pc = "idle"
    /\ result' = "NONE"
    /\ pc' = "grow_from_start"
    /\ UNCHANGED <<spiral, plot_locals, resize_locals, data, cb_log, resizes,
                   cancel_requested, file_vars>>

\* and returns
GrowFromStartReturns ==
    /\ pc = "grow_from_start"
    /\ result' = sxbp_refine_figure_grow_from_start(spiral, progress_callback)
    /\ pc' = "idle"
    /\ UNCHANGED <<spiral, plot_locals, resize_locals, data, cb_log, resizes,
                   cancel_requested, file_vars>>

Next ==
    \/ \E buffer \in Inputs : BeginFigure(buffer)
    \/ \E threshold \in Thresholds, max \in MaxLines, callback \in BOOLEAN :
           PlotSpiral(threshold, max, callback)
    \/ PlotLoop
    \/ ResizeStep
    \/ ResizeFails
    \/ PlotResized
    \/ CallbackReturn
    \/ GrowFromStartCalled
    \/ GrowFromStartReturns
    \/ \E ndebug \in BOOLEAN : PlotBlank(ndebug)

\* sxbp_plot_spiral on the blank spiral, or sxbp_init_spiral and then any
\* calls of sxbp_plot_spiral and of sxbp_refine_figure_grow_from_start; an
\* allocation may be refused
Spec == Init /\ [][Next]_vars

\* the same with every allocation granted, every call asking for the whole
\* spiral; of the buffers longer than one byte, those starting with a byte
\* of ResizeBytes
LiveInputs == {s \in Inputs : (Len(s) > 1) => (s[1] \in ResizeBytes)}

NextLive ==
    \/ \E buffer \in LiveInputs : BeginFigure(buffer)
    \/ \E threshold \in Thresholds, callback \in BOOLEAN :
           PlotSpiral(threshold, size + 1, callback)
    \/ PlotLoop
    \/ ResizeStep
    \/ PlotResized
    \/ CallbackReturn

\* a call in progress takes its next step, and the progress callback returns
SpecLive ==
    /\ Init
    /\ [][NextLive]_vars
    /\ WF_vars(PlotLoop)
    /\ WF_vars(ResizeStep)
    /\ WF_vars(PlotResized)
    /\ WF_vars(CallbackReturn)

\* buffers of the specification with direct resizes
ResizeInputs == {<<b>> : b \in ResizeBytes}

NextResize ==
    \/ \E buffer \in ResizeInputs : BeginFigure(buffer)
    \/ \E threshold \in Thresholds, max \in {PartialLine, size + 1},
          callback \in BOOLEAN :
           PlotSpiral(threshold, max, callback)
    \/ \E line \in 0..(size - 1), length \in 0..MaxResizeLength,
          threshold \in Thresholds :
           PublicResize(line, length, threshold)
    \/ PlotLoop
    \/ ResizeStep
    \/ PlotResized
    \/ CallbackReturn

\* sxbp_init_spiral, then any calls of sxbp_plot_spiral and of
\* sxbp_resize_spiral
SpecResize == Init /\ [][NextResize]_vars

\* buffers of the specification with a callback that asks to stop
CancelInputs == {<< >>} \cup {<<b>> : b \in LongFirstBytes}

NextCancel ==
    \/ \E buffer \in CancelInputs : BeginFigure(buffer)
    \/ \E threshold \in Thresholds, max \in MaxLines :
           PlotSpiral(threshold, max, TRUE)
    \/ PlotLoop
    \/ ResizeStep
    \/ ResizeFails
    \/ PlotResized
    \/ CallbackReturn
    \/ CallbackAsksCancel

\* sxbp_init_spiral, then any calls of sxbp_plot_spiral with a progress
\* callback that may ask, at any invocation, for the call to stop; an
\* allocation may be refused
SpecCancel == Init /\ [][NextCancel]_vars

\* two-byte buffers whose spirals wind back past lines drawn long before:
\* six clockwise turns, then a staircase (and the mirror image)
LongInputs == {<<2, 85>>, <<253, 170>>}

NextLong ==
    \/ \E buffer \in LongInputs : BeginFigure(buffer)
    \/ \E threshold \in Thresholds, callback \in BOOLEAN :
           PlotSpiral(threshold, size + 1, callback)
    \/ PlotLoop
    \/ ResizeStep
    \/ PlotResized
    \/ CallbackReturn

\* sxbp_init_spiral on a two-byte buffer, then calls of sxbp_plot_spiral for
\* the whole spiral, every allocation granted
SpecLong == Init /\ [][NextLong]_vars

(* ----------------------------- serialiser ----------------------------- *)

\* the magic number "SXBP"
MAGIC_NUMBER == <<83, 88, 66, 80>>

\* VERSION: major, minor, patch
VERSION == [major |-> 0, minor |-> 27, patch |-> 0]

\* bytes of the fixed header: magic, version, line count
FILE_HEADER_SIZE == 11

\* bytes of one serialised line
LINE_T_PACK_SIZE == 4

\* the four bytes of n, least significant first
LittleEndian32(n) ==
    <<n % 256, (n \div 256) % 256, (n \div 65536) % 256, (n \div 16777216) % 256>>

\* the four bytes of n < 2^31, most significant first
BigEndian32(n) ==
    <<(n \div 16777216) % 256, (n \div 65536) % 256, (n \div 256) % 256, n % 256>>

\* the number that four bytes spell, most significant first (b1 < 128)
FromBigEndian32(b1, b2, b3, b4) ==
    (b1 * 16777216) + (b2 * 65536) + (b3 * 256) + b4

\* a line packed with room for 6 bits of direction: the length keeps 26 bits
NarrowPackLine(line) ==
    <<(line.direction * 64) + ((line.length \div 16777216) % 4),
      (line.length \div 65536) % 256,
      (line.length \div 256) % 256,
      line.length % 256>>

\* one segment record: high 2 bits direction, low 30 bits length, big-endian
PackLine(line) ==
    <<(line.direction * 64) + ((line.length \div 16777216) % 64),
      (line.length \div 65536) % 256,
      (line.length \div 256) % 256,
      line.length % 256>>

\* the line that the four bytes of a segment record spell
UnpackLine(b1, b2, b3, b4) ==
    [direction |-> b1 \div 64,
     length |-> FromBigEndian32(b1 % 64, b2, b3, b4)]

\* the header of a dump without its version bytes
VersionlessHeader(sz) == MAGIC_NUMBER \o BigEndian32(sz)

\* the header of a dump of sz lines
Header(sz) ==
    MAGIC_NUMBER \o <<VERSION.major, VERSION.minor, VERSION.patch>>
                 \o BigEndian32(sz)

\* dump_spiral(spiral, buffer): the bytes written to the buffer (the
\* allocation succeeds)
dump_spiral(sz, lns) ==
    LET header == Header(sz)
    IN  [n \in 1..(Len(header) + (LINE_T_PACK_SIZE * sz)) |->
            IF n <= Len(header)
            THEN header[n]
            ELSE LET k == (n - Len(header) - 1) \div LINE_T_PACK_SIZE
                     b == ((n - Len(header) - 1) % LINE_T_PACK_SIZE) + 1
                 IN  PackLine(lns[k])[b]]

\* the loader looks at the magic number before it looks at the size
MagicFirstDiagnostic(bytes) ==
    IF SubSeq(bytes, 1, Min(4, Len(bytes))) # MAGIC_NUMBER
    THEN "DESERIALISE_BAD_MAGIC_NUMBER"
    ELSE IF Len(bytes) < FILE_HEADER_SIZE
    THEN "DESERIALISE_BAD_HEADER_SIZE"
    ELSE IF bytes[5] # VERSION.major
    THEN "DESERIALISE_BAD_VERSION"
    ELSE IF FromBigEndian32(bytes[8], bytes[9], bytes[10], bytes[11])
                > (Len(bytes) - FILE_HEADER_SIZE) \div LINE_T_PACK_SIZE
    THEN "DESERIALISE_BAD_DATA_SIZE"
    ELSE "DESERIALISE_OK"

\* load_spiral(buffer, spiral): the diagnostic. The checks are made in the
\* order of deserialise_diagnostic_t; the line count n is compared with the
\* whole records that follow the header, which is 4 * n > size - 11 without
\* the multiplication
Diagnostic(bytes) ==
    IF Len(bytes) < FILE_HEADER_SIZE
    THEN "DESERIALISE_BAD_HEADER_SIZE"
    ELSE IF SubSeq(bytes, 1, 4) # MAGIC_NUMBER
    THEN "DESERIALISE_BAD_MAGIC_NUMBER"
    ELSE IF bytes[5] # VERSION.major
    THEN "DESERIALISE_BAD_VERSION"
    ELSE IF FromBigEndian32(bytes[8], bytes[9], bytes[10], bytes[11])
                > (Len(bytes) - FILE_HEADER_SIZE) \div LINE_T_PACK_SIZE
    THEN "DESERIALISE_BAD_DATA_SIZE"
    ELSE "DESERIALISE_OK"

\* the size is taken from the header before the data section is checked
EagerLoadedSize(d, old, count) ==
    IF d \in {"DESERIALISE_OK", "DESERIALISE_BAD_DATA_SIZE"} THEN count ELSE old

\* load_spiral(buffer, spiral): the size of the spiral after the call, which
\* is written only when every check has passed
LoadedSize(d, old, count) == IF d = "DESERIALISE_OK" THEN count ELSE old

\* load_spiral(buffer, spiral): the lines of a buffer that passed the checks
LoadedLines(bytes) ==
    LET n == FromBigEndian32(bytes[8], bytes[9], bytes[10], bytes[11])
    IN  [k \in 0..(n - 1) |->
            LET at == FILE_HEADER_SIZE + (LINE_T_PACK_SIZE * k)
            IN  UnpackLine(bytes[at + 1], bytes[at + 2], bytes[at + 3],
                           bytes[at + 4])]

\* magic numbers, major versions, line counts and segment records of the
\* files tried; the records are (UP, 1), (DOWN, 65791) and (LEFT, 2^30 - 1)
FileMagics == {MAGIC_NUMBER, <<78, 79, 80, 69>>}
FileMajors == {VERSION.major, VERSION.major + 1}
FileCounts == {BigEndian32(n) : n \in 0..MaxRecords} \cup {<<1, 0, 0, 0>>}
FileRecords == {<<0, 0, 0, 1>>, <<128, 1, 0, 255>>, <<255, 255, 255, 255>>}

\* the data sections tried: up to MaxRecords records
FileDatas ==
    UNION {{[n \in 1..(LINE_T_PACK_SIZE * m) |->
                recs[((n - 1) \div LINE_T_PACK_SIZE) + 1]
                    [((n - 1) % LINE_T_PACK_SIZE) + 1]] :
               recs \in [1..m -> FileRecords]} :
           m \in 0..MaxRecords}

\* the files tried: a header and a data section, cut off anywhere or with
\* a byte too many, and "NOPE" followed by seven zero bytes
Files ==
    LET whole == {m \o <<v, VERSION.minor, VERSION.patch>> \o c \o d :
                     m \in FileMagics, v \in FileMajors, c \in FileCounts,
                     d \in FileDatas}
    IN  UNION {{SubSeq(f, 1, n) : n \in 0..Len(f)} \cup {f \o <<0>>} :
               f \in whole}
        \cup {<<78, 79, 80, 69, 0, 0, 0, 0, 0, 0, 0>>}

\* file_to_buffer: a file is read into the buffer that load_spiral is given
FileToBuffer(bytes) ==
    /\ pc \in {"blank", "idle"}
    /\ serialised = << >>
    /\ serialised' = bytes
    /\ dumped' = NoFigure
    /\ diagnostic' = "NONE"
    /\ UNCHANGED <<spiral, pc, plot_locals, resize_locals, result, data, cb_log,
                   resizes, cancel_requested>>

\* dump_spiral(spiral, &buffer) on a figure between calls
DumpSpiral ==
    /\ pc = "idle"
    /\ serialised' = dump_spiral(size, lines)
    /\ dumped' = [size |-> size, lines |-> lines]
    /\ result' = "OPERATION_OK"
    /\ diagnostic' = "NONE"
    /\ UNCHANGED <<spiral, pc, plot_locals, resize_locals, data, cb_log,
                   resizes, cancel_requested>>

\* the program ends and is run again: spiral_t spiral = {0, NULL, ...}; the
\* file it wrote stays
BlankSpiral ==
    /\ pc = "idle"
    /\ serialised # << >>
    /\ size' = 0
    /\ lines' = << >>
    /\ co_ord_cache' = [co_ords |-> << >>, validity |-> 0]
    /\ collides' = FALSE
    /\ collider' = 0
    /\ solved_count' = 0
    /\ data' = << >>
    /\ result' = "NONE"
    /\ diagnostic' = "NONE"
    /\ pc' = "blank"
    /\ UNCHANGED <<plot_locals, resize_locals, cb_log, resizes,
                   cancel_requested, serialised, dumped>>

\* load_spiral(buffer, &spiral): the spiral is written only when the buffer
\* passed every check; the format carries the lines and nothing else, so no
\* line of the loaded spiral counts as solved and no point is cached
LoadSpiral ==
    /\ pc \in {"blank", "idle"}
    /\ \E d \in {Diagnostic(serialised)} :
           /\ diagnostic' = d
           /\ size' = LoadedSize(d, size,
                         IF Len(serialised) < FILE_HEADER_SIZE
                         THEN 0
                         ELSE FromBigEndian32(serialised[8], serialised[9],
                                              serialised[10], serialised[11]))
           /\ IF d = "DESERIALISE_OK"
              THEN /\ lines' = LoadedLines(serialised)
                   /\ co_ord_cache' = [co_ords |-> << >>, validity |-> 0]
                   /\ collides' = TRUE
                   /\ collider' = 0
                   /\ solved_count' = 0
                   /\ data' = << >>
                   /\ result' = "OPERATION_OK"
                   /\ pc' = "idle"
              ELSE /\ result' = "OPERATION_FAIL"
                   /\ UNCHANGED <<lines, co_ord_cache, collides, collider,
                                  solved_count, data, pc>>
    /\ UNCHANGED <<plot_locals, resize_locals, cb_log, resizes,
                   cancel_requested, serialised, dumped>>

\* buffers of the specification with files
FileInputs == {<< >>} \cup ResizeInputs

NextFile ==
    \/ \E buffer \in FileInputs : BeginFigure(buffer)
    \/ \E bytes \in Files : FileToBuffer(bytes)
    \/ DumpSpiral
    \/ LoadSpiral
    \/ BlankSpiral

\* sxbp_init_spiral, files read into the buffer, any calls of dump_spiral
\* and load_spiral, and new runs of the program
SpecFile == Init /\ [][NextFile]_vars

\* first bytes that give every choice of the first two turns
ShortBytes == {0, 64, 128, 192}

\* files of fewer than four lines: the first lines of a spiral as
\* sxbp_init_spiral turns them, with lengths of 1..MaxResizeLength
ShortFigures ==
    UNION {{[size |-> n,
             lines |-> [k \in 0..(n - 1) |->
                           [direction |-> DirectionOfLine(<<b>>, k),
                            length |-> lens[k + 1]]]] :
               b \in ShortBytes, lens \in [1..n -> 1..MaxResizeLength]} :
           n \in 1..3}

ShortFiles == {dump_spiral(f.size, f.lines) : f \in ShortFigures}

NextShort ==
    \/ \E bytes \in ShortFiles : FileToBuffer(bytes)
    \/ LoadSpiral
    \/ \E line \in 0..(size - 1), length \in 0..MaxResizeLength,
          threshold \in Thresholds :
           PublicResize(line, length, threshold)
    \/ \E threshold \in Thresholds, callback \in BOOLEAN :
           PlotSpiral(threshold, size + 1, callback)
    \/ PlotLoop
    \/ ResizeStep
    \/ PlotResized
    \/ CallbackReturn

\* load_spiral of a file of fewer than four lines, then any calls of
\* sxbp_plot_spiral and of sxbp_resize_spiral
SpecShort == Init /\ [][NextShort]_vars

(* ------------------- reference geometry of a figure ------------------- *)

\* start vertex of segment k: the origin moved along segments 0..k-1
RECURSIVE StartOf(_)
StartOf(k) ==
    IF k = 0
    THEN <<0, 0>>
    ELSE LET from == StartOf(k - 1)
             v == VECTOR_DIRECTIONS[lines[k - 1].direction]
             n == lines[k - 1].length
         IN  <<from[1] + (n * v[1]), from[2] + (n * v[2])>>

\* closed set of lattice points of segment k
PointsOf(k) ==
    LET from == StartOf(k)
        v == VECTOR_DIRECTIONS[lines[k].direction]
    IN  {<<from[1] + (t * v[1]), from[2] + (t * v[2])>> : t \in 0..lines[k].length}

\* segments 0..n-1 form a self-avoiding polyline
SelfAvoiding(n) ==
    \A a \in 0..(n - 1) : \A b \in (a + 1)..(n - 1) :
        IF b = a + 1
        THEN PointsOf(a) \cap PointsOf(b) = {StartOf(b)}
        ELSE PointsOf(a) \cap PointsOf(b) = {}

\* the figure can be looked at from outside the library: between calls, in
\* the progress callback, after a call returned an error
Observable == pc \in {"idle", "callback", "failed"}

\* a call of sxbp_plot_spiral is in progress
InPlot == pc \in {"loop", "resize", "resized", "callback"} /\ caller # "user"

\* no run of the backtracker is cut short by the cap on the lengths
LengthsWithinModel == (pc = "resize") => (StoreLength(current_length) <= MaxLength)

(* ------------------------------- claims ------------------------------- *)

C2_SolvedSegmentsFrozen ==
    [][(InPlot /\ cb_log # << >>) =>
          \A k \in 0..(solved_count - 1) : lines'[k] = lines[k]]_vars

\* C2, amended: no step of a call of sxbp_plot_spiral changes the direction
\* of a segment below solved_count, nor the length of segment 0 or 1 once
\* below solved_count; the lengths of the other solved segments are the
\* ones the backtracker rewrites.
C2_SolvedDirectionsFrozen ==
    [][InPlot =>
          \A k \in 0..(solved_count - 1) :
              /\ lines'[k].direction = lines[k].direction
              /\ (k <= 1) => (lines'[k].length = lines[k].length)]_vars

\* the backtracker has gone down to a solved segment and is about to give
\* it another length, after an iteration of this call succeeded
C2_Witness ==
    /\ pc = "resize"
    /\ caller = "plot"
    /\ cb_log # << >>
    /\ current_index < index
    /\ current_index < solved_count
    /\ lines[current_index].length # StoreLength(current_length)

\* C3 as stated: solved_count never decreases, whatever public operation
\* (sxbp_plot_spiral, sxbp_resize_spiral) is called.
C3_SolvedCountNeverDecreases == [][solved_count' >= solved_count]_vars

\* C3, amended: no step of sxbp_plot_spiral decreases solved_count; a direct
\* call of sxbp_resize_spiral(index, ...) that succeeds sets it to index + 1,
\* which may be less than it was.
C3_SolvedCountMonotoneInPlot ==
    [][IF caller = "user" /\ pc = "resize" /\ pc' = "idle"
       THEN solved_count' = index + 1
       ELSE solved_count' >= solved_count]_vars

\* a direct resize lowered solved_count and a later call of
\* sxbp_plot_spiral has solved the whole spiral again
C3_Witness ==
    /\ resizes > 0
    /\ pc = "resized"
    /\ solved_count = size
    /\ size = 9

\* C4: with every allocation granted, every run of the backtracker reaches
\* its success step and every call of sxbp_plot_spiral returns, for every
\* input buffer and threshold of the model.
C4_RefineTerminates ==
    /\ (pc = "resize") ~> (pc = "resized")
    /\ (pc = "loop") ~> (pc = "idle")

\* a run of the backtracker has succeeded after lengthening the segment
\* before its target
C4_Witness ==
    /\ pc = "resized"
    /\ i >= 3
    /\ collides = FALSE
    /\ lines[i - 1].length > 1
    /\ lines[i].length = 1

\* bit n of a buffer, the bits of each byte taken from the most significant
MsbFirstBit(bytes, n) ==
    LET byte == bytes[(n \div 8) + 1]
        pos == n % 8
    IN  IF (byte % (2 ^ (8 - pos))) >= 2 ^ (7 - pos) THEN 1 ELSE 0

\* C5: from sxbp_init_spiral on, the direction of every segment k >= 1 is
\* that of segment k-1 turned clockwise (d+1 mod 4) if bit k-1 of the
\* buffer, MSB first, is 0 and anti-clockwise (d-1 mod 4) if it is 1.
C5_DirectionsEncodeBits ==
    (pc # "blank") =>
        \A k \in 1..(size - 1) :
            lines[k].direction =
                IF MsbFirstBit(data, k - 1) = 0
                THEN (lines[k - 1].direction + 1) % 4
                ELSE (lines[k - 1].direction + 3) % 4

\* a figure just made from a byte with both kinds of bit, whose first turn
\* and last turn differ
C5_Witness ==
    /\ pc = "idle"
    /\ solved_count = 0
    /\ size = 9
    /\ MsbFirstBit(data, 0) = 0
    /\ MsbFirstBit(data, 7) = 1
    /\ lines[1].direction = SXBP_RIGHT

\* the figure has not been touched since sxbp_init_spiral
FreshFigure ==
    /\ pc = "idle"
    /\ solved_count = 0
    /\ co_ord_cache.co_ords = << >>

C7_InitialLengthsAreOne ==
    FreshFigure =>
        /\ size = (8 * Len(data)) + 1
        /\ \A k \in 1..(8 * Len(data)) : lines[k].length = 1

\* C7, amended: a buffer of B bytes gives 8B + 1 segments, those of index
\* 1..8B with length 0.
C7_InitialLengthsAreZero ==
    FreshFigure =>
        /\ size = (8 * Len(data)) + 1
        /\ DOMAIN lines = 0..(8 * Len(data))
        /\ \A k \in 1..(8 * Len(data)) : lines[k].length = 0

\* a figure just made from one byte
C7_Witness ==
    /\ FreshFigure
    /\ Len(data) = 1
    /\ size = 9

\* C8: whenever the figure can be observed (after sxbp_init_spiral, in the
\* progress callback, after sxbp_plot_spiral returned OK or an error) any
\* two consecutive segments have directions of different parity.
C8_ConsecutivePerpendicular ==
    Observable =>
        \A k \in 1..(size - 1) :
            (lines[k].direction % 2) # (lines[k - 1].direction % 2)

\* sxbp_plot_spiral returned an error on a one-byte figure, in the middle
\* of a descent of the backtracker
C8_Witness ==
    /\ pc = "failed"
    /\ size = 9
    /\ current_index < index

\* C9: whenever the figure can be observed every segment below solved_count
\* has a length of at least 1 (a length of 0 is found at or above
\* solved_count only).
C9_SolvedLengthsPositive ==
    Observable =>
        \A k \in 0..(size - 1) :
            (lines[k].length < 1) => (k >= solved_count)

\* the progress callback looks at a figure with solved segments, some of
\* them lengthened, and segments not reached yet, still of length 0
C9_Witness ==
    /\ pc = "callback"
    /\ solved_count >= 4
    /\ solved_count < size
    /\ \E k \in 0..(solved_count - 1) : lines[k].length > 1
    /\ lines[size - 1].length = 0

\* C10: the progress callback is called only right after resize(i, 1) has
\* succeeded and solved_count has become i + 1, with (i, the smaller of
\* max_line and size); no iteration of the backtracker calls it; within a
\* call of sxbp_plot_spiral the i of its invocations strictly increase (so
\* it is called at most once per successful iteration of the for loop).
C10_CallbackPerSolvedLine ==
    [][/\ (pc = "resize") => (cb_log' = cb_log)
       /\ (cb_log' # cb_log /\ cb_log' # << >>) =>
             /\ pc = "resized"
             /\ result = "OPERATION_OK"
             /\ solved_count = i + 1
             /\ cb_log' = Append(cb_log, <<i, Min(max_line, size)>>)
             /\ (cb_log # << >>) => (cb_log[Len(cb_log)][1] < i)]_vars

\* the callback is being called a third time in a call that was asked for
\* more lines than the spiral has, after descents of the backtracker
C10_Witness ==
    /\ pc = "callback"
    /\ Len(cb_log) >= 3
    /\ max_line > size
    /\ \E k \in 1..(size - 1) : lines[k].length > 1

\* invariants 2 to 4 of the data model for the solved prefix: consecutive
\* segments perpendicular, segments below solved_count self-avoiding and of
\* length at least 1
PrefixInvariants ==
    /\ \A k \in 1..(size - 1) :
           (lines[k].direction % 2) # (lines[k - 1].direction % 2)
    /\ SelfAvoiding(solved_count)
    /\ \A k \in 0..(solved_count - 1) : lines[k].length >= 1

C14_PrefixValidAfterRefusal ==
    (pc = "failed") =>
        /\ SelfAvoiding(solved_count)
        /\ \A k \in 0..(solved_count - 1) : lines[k].length >= 1

C13_RefusalReturnsAtOnce ==
    /\ [][(result # "MALLOC_REFUSED" /\ result' = "MALLOC_REFUSED") =>
             /\ \A k \in 0..(size - 1) :
                    (k # current_index) => (lines'[k] = lines[k])
             /\ collides' = collides
             /\ collider' = collider
             /\ solved_count' = solved_count
             /\ solved_count' = index
             /\ cb_log' = cb_log
             /\ \A n \in 1..Len(cb_log) : cb_log[n][1] # index]_vars
    /\ [][(result = "MALLOC_REFUSED") =>
             /\ result' = "MALLOC_REFUSED"
             /\ spiral' = spiral
             /\ cb_log' = cb_log]_vars

\* the refusal came in the descent of the backtracker, after three lines
\* of the same call had been reported to the callback
C13_Witness ==
    /\ result = "MALLOC_REFUSED"
    /\ current_index < index
    /\ Len(cb_log) >= 3
\* C15: a call of sxbp_plot_spiral on a figure that an earlier call with
\* the same max_line has refined returns OPERATION_OK at once: a call that
\* returns leaves solved_count >= min(max_line, size), the next call starts
\* from the same figure with an empty callback log, and a call that finds
\* solved_count >= min(max_line, size) returns in its first step with no
\* length written, the callback not invoked and solved_count unchanged.
C15_RefinedAgainIsNoOp ==
    /\ [][(pc = "loop" /\ pc' = "idle") =>
             /\ result' = "OPERATION_OK"
             /\ solved_count' >= Min(max_line, size)]_vars
    /\ [][(pc = "idle" /\ pc' = "loop") =>
             /\ spiral' = spiral
             /\ cb_log' = << >>]_vars
    /\ [][(pc = "loop" /\ solved_count >= Min(max_line, size)) =>
             /\ pc' = "idle"
             /\ result' = "OPERATION_OK"
             /\ spiral' = spiral
             /\ cb_log' = << >>]_vars

\* a second call, with a callback, on a figure whose nine lines are solved
C15_Witness ==
    /\ pc = "loop"
    /\ result = "NONE"
    /\ cb_log = << >>
    /\ progress_callback
    /\ size = 9
    /\ solved_count = size
    /\ max_line > size
    /\ \E k \in 1..(size - 1) : lines[k].length > 1
\* C16: a call of sxbp_plot_spiral with max_line = m on a figure of N lines
\* solves exactly the lines from the old solved_count up to min(m, N): it
\* enters with the figure as it was, solves line after line starting at
\* solved_count and only below min(m, N), reports each of them once and in
\* order, writes no line at or above min(m, N), and returns OPERATION_OK with
\* solved_count = min(m, N), or with the old solved_count where that was
\* already min(m, N) or more and nothing was done.
C16_RefinesUpToMaxLine ==
    /\ []((pc = "loop") => (solved_count = i))
    /\ []((pc = "callback") =>
             \A n \in 1..Len(cb_log) :
                 /\ cb_log[n][1] = i - (Len(cb_log) - n)
                 /\ cb_log[n][2] = Min(max_line, size))
    /\ [][(pc = "idle" /\ pc' = "loop") =>
             /\ spiral' = spiral
             /\ result' = "NONE"
             /\ max_index' = Min(max_line', size)]_vars
    /\ [][(pc = "loop" /\ pc' = "resize") =>
             /\ i < Min(max_line, size)
             /\ index' = i]_vars
    /\ [][InPlot =>
             \A k \in 0..(size - 1) :
                 (lines'[k] # lines[k]) => (k <= i /\ k < Min(max_line, size))]_vars
    /\ [][(pc = "loop" /\ pc' = "idle") =>
             /\ result' = "OPERATION_OK"
             /\ solved_count' = solved_count
             /\ IF result = "NONE"
                THEN solved_count >= Min(max_line, size)
                ELSE solved_count = Min(max_line, size)]_vars

\* a call asking for more lines than the nine of the figure, entered with
\* PartialLine lines solved, has solved and reported the others and is
\* about to return
C16_Witness ==
    /\ pc = "loop"
    /\ size = 9
    /\ max_line > size
    /\ i = size
    /\ Len(cb_log) = size - PartialLine
    /\ cb_log[1][1] = PartialLine
C18_GrowFromStartUnimplemented ==
    /\ [][(pc' = "grow_from_start") =>
             (pc = "idle" /\ spiral' = spiral /\ cb_log' = cb_log)]_vars
    /\ [][(pc = "grow_from_start") =>
             /\ pc' = "idle"
             /\ result' = "FAIL_UNIMPLEMENTED"
             /\ spiral' = spiral
             /\ cb_log' = cb_log]_vars

\* the variant was called on a figure with PartialLine of nine lines solved
C18_Witness ==
    /\ pc = "idle"
    /\ result = "FAIL_UNIMPLEMENTED"
    /\ size = 9
    /\ solved_count = PartialLine
\* C19: sxbp_plot_spiral on a figure without lines (N = 0) returns
\* PRECONDITION_FAILED and leaves the figure unchanged.
C19_BlankFigureRefused ==
    [][(pc = "blank" /\ size' = 0 /\ result' # result) =>
           /\ result' = "PRECONDITION_FAILED"
           /\ pc' = "blank"
           /\ spiral' = spiral]_vars
\* start vertex of segment k of the line array lns
RECURSIVE StartIn(_, _)
StartIn(lns, k) ==
    IF k = 0
    THEN <<0, 0>>
    ELSE LET from == StartIn(lns, k - 1)
             v == VECTOR_DIRECTIONS[lns[k - 1].direction]
         IN  <<from[1] + (lns[k - 1].length * v[1]),
               from[2] + (lns[k - 1].length * v[2])>>

\* the length that takes line prev, when it is parallel to line rigid, past
\* the far side of rigid: the distance along the direction of prev from the
\* start of prev to the start of rigid (same direction) or to its end
\* (opposite direction), plus the length of rigid, plus one
PastRigid(lns, prev, rigid) ==
    LET p == lns[prev]
        r == lns[rigid]
        v == VECTOR_DIRECTIONS[p.direction]
        pa == StartIn(lns, prev)
        to == IF p.direction = r.direction
              THEN StartIn(lns, rigid)
              ELSE StartIn(lns, rigid + 1)
    IN  ((to[1] - pa[1]) * v[1]) + ((to[2] - pa[2]) * v[2]) + r.length + 1

\* lines a and b of lns are parallel
Parallel(lns, a, b) == (lns[a].direction % 2) = (lns[b].direction % 2)

\* a step of the backtracker that found a collision and moved to the
\* previous line, in a call with perfection threshold 0
CollisionWithoutThreshold ==
    /\ pc = "resize"
    /\ pc' = "resize"
    /\ perfection_threshold = 0
    /\ collides'
    /\ current_index' = current_index - 1

\* C20 as stated: with perfection threshold 0 the length suggested for the
\* previous line after a collision is always its length plus one, whether
\* or not it is parallel to the line collided with.
C20_ZeroThresholdSuggestsPlusOne ==
    [][CollisionWithoutThreshold =>
           (current_length' = lines'[current_index'].length + 1)]_vars

\* C20 amended: with perfection threshold 0 the threshold rule is off and
\* the geometric suggestion is always on: after a collision the length
\* suggested for the previous line is the one that takes it past the line
\* collided with when the two are parallel, and its length plus one only
\* when they are perpendicular.
C20_ZeroThresholdSuggestsGeometric ==
    [][CollisionWithoutThreshold =>
           (current_length' =
               IF Parallel(lines', current_index', collider')
               THEN PastRigid(lines', current_index', collider')
               ELSE lines'[current_index'].length + 1)]_vars

\* with threshold 0, after a collision with a line parallel to the previous
\* one, a length other than the previous line's plus one is suggested
C20_Witness ==
    /\ pc = "resize"
    /\ perfection_threshold = 0
    /\ collides
    /\ current_index < index
    /\ Parallel(lines, current_index, collider)
    /\ current_length # lines[current_index].length + 1
    /\ current_length = PastRigid(lines, current_index, collider)
\* C21: load_spiral of the buffer that dump_spiral wrote for a figure
\* succeeds and gives a figure with the same number of lines and, at every
\* index, the same direction and length.
C21_LoadOfDumpIsSameFigure ==
    (dumped # NoFigure /\ diagnostic # "NONE") =>
        /\ diagnostic = "DESERIALISE_OK"
        /\ pc = "idle"
        /\ size = dumped.size
        /\ lines = dumped.lines

\* a figure with a length of 2^30 - 1 and another above 2^16 was dumped,
\* and a new run of the program loaded it into a blank spiral
C21_Witness ==
    /\ dumped # NoFigure
    /\ diagnostic = "DESERIALISE_OK"
    /\ data = << >>
    /\ result = "OPERATION_OK"
    /\ size = 2
    /\ lines[0] = [direction |-> SXBP_LEFT, length |-> 1073741823]
    /\ lines[1] = [direction |-> SXBP_DOWN, length |-> 65791]
    /\ solved_count = 0
BadDiagnostics ==
    {"DESERIALISE_BAD_HEADER_SIZE", "DESERIALISE_BAD_MAGIC_NUMBER",
     "DESERIALISE_BAD_VERSION", "DESERIALISE_BAD_DATA_SIZE"}

RECURSIVE LengthBefore(_)
LengthBefore(k) == IF k = 0 THEN 0 ELSE LengthBefore(k - 1) + lines[k - 1].length

\* C25: after sxbp_init_spiral, sxbp_plot_spiral or sxbp_resize_spiral has
\* returned, with or without an error, the validity watermark of the cache
\* lies in 0..size, and for every line below it the cache holds, at the
\* position of the end of that line, the origin moved along lines 0 to it.
C25_CacheCoherent ==
    (pc \in {"idle", "failed"}) =>
        /\ co_ord_cache.validity \in 0..size
        /\ \A k \in 0..(co_ord_cache.validity - 1) :
               /\ LengthBefore(k + 1) < Len(co_ord_cache.co_ords)
               /\ At(co_ord_cache.co_ords, LengthBefore(k + 1)) = StartOf(k + 1)

\* a call has returned after a collision made it lengthen earlier lines,
\* and all nine lines are cached
C25_Witness ==
    /\ pc = "idle"
    /\ size = 9
    /\ co_ord_cache.validity = size
    /\ Cardinality({k \in 0..(size - 1) : lines[k].length > 1}) >= 3
\* a step of the backtracker that found a collision, asked suggest_resize
\* for a length and moved to the previous line
Descent ==
    /\ pc = "resize"
    /\ pc' = "resize"
    /\ collides'
    /\ current_index' = current_index - 1

\* C26: whenever the backtracker finds a collision, with any perfection
\* threshold, the length that suggest_resize returns for the previous line
\* is greater than the length that line has, so that every descent
\* lengthens the line it descends to.
C26_DescentLengthens ==
    [][Descent =>
           /\ current_index >= 1
           /\ current_length' > lines[current_index'].length
           /\ lines'[current_index'].length = lines[current_index'].length]_vars

\* the backtracker descended to a line of length 2 or more with a longer
\* length for it, in a call with a perfection threshold
C26_Witness ==
    /\ pc = "resize"
    /\ collides
    /\ current_index < index
    /\ perfection_threshold > 0
    /\ lines[current_index].length >= 2
    /\ current_length > lines[current_index].length
\* a descent of the backtracker in which suggest_resize took the rules for
\* parallel lines: the threshold rule did not apply to the colliding line
\* and the line before it is parallel to the line collided with
ParallelDescent ==
    /\ Descent
    /\ ~AboveThreshold(lines'[current_index].length, perfection_threshold)
    /\ Parallel(lines', current_index', collider')

\* the displacement the code adds r.length + 1 to: what is left of the
\* suggested length
SuggestedDelta == current_length' - lines'[collider'].length - 1

\* C27 as stated: in every call of the heuristic made by the backtracker
\* that takes the rules for parallel lines, the displacement along the axis
\* of the previous line p from its start to the start of the rigid line r
\* (same direction) or to its end (opposite direction), measured in the
\* direction of p, is strictly positive.
C27_DeltaPositive ==
    [][ParallelDescent => (SuggestedDelta > 0)]_vars

\* C27 amended: in every such call the displacement is the one measured on
\* the polyline from the start of p to that endpoint of r, and it lies
\* between p.length - r.length and p.length: it can be zero or negative,
\* and what is strictly positive is the displacement plus r.length, which
\* reaches the other endpoint of r.
C27_DeltaWithinLines ==
    [][ParallelDescent =>
           LET p == lines'[current_index']
               r == lines'[collider']
           IN  /\ SuggestedDelta =
                      PastRigid(lines', current_index', collider') - r.length - 1
               /\ SuggestedDelta >= p.length - r.length
               /\ SuggestedDelta <= p.length
               /\ SuggestedDelta + r.length > 0]_vars

\* a parallel-case suggestion has just been made with a negative
\* displacement
C27_Witness ==
    /\ pc = "resize"
    /\ collides
    /\ current_index < index
    /\ ~AboveThreshold(lines[current_index + 1].length, perfection_threshold)
    /\ Parallel(lines, current_index, collider)
    /\ current_length = PastRigid(lines, current_index, collider)
    /\ current_length - lines[collider].length - 1 < 0

\* the rule of the heuristic written on the polyline itself: hit says
\* whether line last collides, rigid is the line it collides with
ReferenceSuggestion(lns, hit, rigid, last, T) ==
    IF ~hit
    THEN lns[last - 1].length
    ELSE IF (T > 0) /\ (lns[last].length > T)
    THEN lns[last - 1].length + 1
    ELSE IF ~Parallel(lns, last - 1, rigid)
    THEN lns[last - 1].length + 1
    ELSE PastRigid(lns, last - 1, rigid)

\* an iteration of the backtracker on a line other than the first ran its
\* collision test
CollisionTested ==
    /\ pc = "resize"
    /\ pc' # "failed"
    /\ current_index >= 1

\* C28: for the figure that an iteration of the backtracker leaves behind,
\* the line i it has just tested and every threshold T, suggest_resize
\* gives what the reference rule gives: p.length without a collision; else
\* p.length + 1 if T > 0 and the length of line i is above T; else
\* p.length + 1 if p and the line collided with are perpendicular; else the
\* displacement from the start of p to the near endpoint of that line, plus
\* its length, plus one. The length the backtracker goes on with after a
\* collision is that value for the threshold of the call.
C28_HeuristicIsReferenceRule ==
    [][CollisionTested =>
           /\ \A T \in Thresholds :
                  suggest_resize(lines', co_ord_cache'.co_ords, collides',
                                 collider', current_index, T)
                      = ReferenceSuggestion(lines', collides', collider',
                                            current_index, T)
           /\ collides' =>
                  (current_length' =
                       ReferenceSuggestion(lines', TRUE, collider',
                                           current_index, perfection_threshold))]_vars

\* with a threshold above 0 that the colliding line does not exceed, the
\* geometric rule has just given a length other than p.length + 1
C28_Witness ==
    /\ pc = "resize"
    /\ collides
    /\ current_index < index
    /\ perfection_threshold > 0
    /\ lines[current_index + 1].length <= perfection_threshold
    /\ Parallel(lines, current_index, collider)
    /\ current_length = PastRigid(lines, current_index, collider)
    /\ current_length # lines[current_index].length + 1

\* closed set of lattice points of segment k of the line array lns
PointsIn(lns, k) ==
    LET from == StartIn(lns, k)
        v == VECTOR_DIRECTIONS[lns[k].direction]
    IN  {<<from[1] + (t * v[1]), from[2] + (t * v[2])>> : t \in 0..lns[k].length}

\* the segments before segment last whose points meet those of last, the
\* vertex at which last - 1 turns into last not counted
Intersecting(lns, last) ==
    {j \in 0..(last - 1) :
        LET shared == PointsIn(lns, j) \cap PointsIn(lns, last)
        IN  IF j = last - 1
            THEN shared \ {StartIn(lns, last)} # {}
            ELSE shared # {}}

\* segments 0..n-1 of lns, each of length at least 1, form a self-avoiding
\* polyline: walking them from the origin visits no lattice point twice, so
\* that they cover one point more than the steps taken
SelfAvoidingIn(lns, n) ==
    \/ n = 0
    \/ Cardinality(UNION {PointsIn(lns, k) : k \in 0..(n - 1)})
           = sxbp_sum_lines(lns, 0, n) + 1

\* an iteration of the backtracker ran its collision test on a figure whose
\* lines up to the tested one have lengths of at least 1, whose lines
\* before it are self-avoiding and whose cache holds the vertices of the
\* lines up to it and no more
TestedOnSoundFigure ==
    /\ pc = "resize"
    /\ pc' # "failed"
    /\ \A k \in 0..current_index : lines'[k].length >= 1
    /\ SelfAvoidingIn(lines', current_index)
    /\ co_ord_cache'.validity = current_index + 1
    /\ Len(co_ord_cache'.co_ords) = sxbp_sum_lines(lines', 0, current_index + 1) + 1

\* C29: on such a figure spiral_collides says that the tested line
\* collides exactly when some earlier segment has a lattice point in common
\* with it, the vertex at which the previous segment turns into it not
\* counted; this for every tested line, line 0 and the last line included.
C29_CollidesIsIntersects ==
    [][TestedOnSoundFigure =>
           (collides' <=> (Intersecting(lines', current_index) # {}))]_vars

\* a collision has just been found between two segments that intersect on
\* a figure with lengths of at least 1 up to the colliding line
C29_Witness ==
    /\ pc = "resize"
    /\ collides
    /\ current_index < index
    /\ \A k \in 0..(current_index + 1) : lines[k].length >= 1
    /\ SelfAvoidingIn(lines, current_index + 1)
    /\ Intersecting(lines, current_index + 1) # {}

\* an iteration of the backtracker ran its collision test and found a
\* collision
CollisionFound ==
    /\ pc = "resize"
    /\ pc' # "failed"
    /\ collides'

\* C30: whenever spiral_collides returns true for the tested line, the
\* collider it stores is the lowest-indexed segment whose closed set of
\* lattice points meets that of the tested line.
C30_ColliderIsLowest ==
    [][CollisionFound =>
           /\ collider' \in Intersecting(lines', current_index)
           /\ \A j \in Intersecting(lines', current_index) : collider' <= j]_vars

\* a collision has just been found with a segment other than segment 0
\* while a later segment meets the colliding line as well
C30_Witness ==
    /\ pc = "resize"
    /\ collides
    /\ current_index < index
    /\ collider > 0
    /\ \E j \in Intersecting(lines, current_index + 1) : j > collider

\* an iteration of the backtracker ran its collision test on a line that
\* has a line two places before it
TestedPastSecondLine ==
    /\ pc = "resize"
    /\ pc' # "failed"
    /\ current_index >= 2

\* C31: whenever the backtracker evaluates spiral_collides, the segment two
\* places before the tested one shares no lattice point with it, and the
\* early exit of the loop (at line size - 3, whatever the tested line) hides
\* no collision: the answer is that of the reference, which skips nothing.
C31_SkippedLineNeverCollides ==
    [][TestedPastSecondLine =>
           /\ PointsIn(lines', current_index - 2)
                  \cap PointsIn(lines', current_index) = {}
           /\ collides' <=> (Intersecting(lines', current_index) # {})]_vars

\* the last line of the spiral has just been tested and found free: the
\* loop stopped at line size - 3 and left out the two lines before it
C31_Witness ==
    /\ pc = "resized"
    /\ ~collides
    /\ size >= 4
    /\ solved_count = size
    /\ PointsIn(lines, size - 3) \cap PointsIn(lines, size - 1) = {}

\* C32: on a figure of fewer than four lines spiral_collides returns false
\* whatever line it is asked about, and rightly so: when the lines, turned
\* as sxbp_init_spiral turns them, all have lengths of at least 1, no line
\* has a lattice point in common with an earlier one, the vertex at which
\* a line turns into the next not counted.
C32_ShortFigureNeverCollides ==
    [][(pc = "resize" /\ pc' # "failed" /\ size < 4) =>
           /\ ~collides'
           /\ (\A k \in 0..(size - 1) : lines'[k].length >= 1) =>
                  (\A last \in 0..(size - 1) : Intersecting(lines', last) = {})]_vars

\* the third line of a figure of three lines, all of length at least 1,
\* has just been tested
C32_Witness ==
    /\ pc = "idle"
    /\ size = 3
    /\ solved_count = 3
    /\ ~collides
    /\ \A k \in 0..2 : lines[k].length >= 1
    /\ \E k \in 0..2 : lines[k].length >= 2

\* a run of the backtracker started by sxbp_plot_spiral for a line other
\* than line 0 is in progress
InRunAboveFirstLine ==
    /\ pc = "resize"
    /\ caller = "plot"
    /\ index >= 1

\* C33: during a run of the backtracker that sxbp_plot_spiral started for a
\* line target >= 1, the line being worked on stays within 1..target: no
\* collision is found on line 0 or line 1, so the descent never reaches
\* line 0, no step of the run changes line 0, and the heuristic is never
\* asked about the line before line 0.
C33_DescentStaysAboveFirstLine ==
    /\ [](InRunAboveFirstLine => (current_index \in 1..index))
    /\ [][InRunAboveFirstLine =>
              /\ lines'[0] = lines[0]
              /\ (pc' = "resize" /\ collides') => (current_index >= 2)
              /\ (pc' = "resize") => (current_index' >= 1)]_vars

\* the backtracker has descended to line 2, the lowest line a collision
\* (of line 3) can send it to
C33_Witness ==
    /\ InRunAboveFirstLine
    /\ collides
    /\ current_index = 2
    /\ index = 3

\* C34: every iteration of the backtracker, which writes the length of the
\* line it works on, leaves the validity watermark clamped to that line
\* (when the extension of the cache is refused) or the cache extended anew
\* from the clamped watermark through that line; it writes no other line;
\* and in every state, inside a call as well as between calls, every line
\* below the watermark has its end vertex cached as the lines now give it,
\* so that no co-ord read below the watermark comes from an old length.
C34_WriteClampsWatermark ==
    /\ [][(pc = "resize") =>
              /\ \A k \in 0..(size - 1) :
                     (lines'[k] # lines[k]) => (k = current_index)
              /\ lines'[current_index].length = StoreLength(current_length)
              /\ co_ord_cache'.validity =
                     IF pc' = "failed"
                     THEN Min(co_ord_cache.validity, current_index)
                     ELSE current_index + 1]_vars
    /\ [](\A k \in 0..(co_ord_cache.validity - 1) :
              /\ LengthBefore(k + 1) < Len(co_ord_cache.co_ords)
              /\ At(co_ord_cache.co_ords, LengthBefore(k + 1)) = StartOf(k + 1))

\* inside a call, the backtracker has descended, written a longer length to
\* the line before the target, whose old vertices were cached, and climbed
\* back: the watermark stands just above the rewritten line
C34_Witness ==
    /\ pc = "resize"
    /\ caller = "plot"
    /\ ~collides
    /\ current_index = index
    /\ index >= 4
    /\ lines[index - 1].length >= 2
    /\ co_ord_cache.validity = index

\* an iteration of the while loop of sxbp_resize_spiral whose extension of
\* the cache was granted
Iteration ==
    /\ pc = "resize"
    /\ pc' # "failed"

\* C35: every such iteration does what the specified backtracker does: it
\* writes cur_length to line cur_index and to no other line, leaves the
\* cache extended through cur_index and no further, tests line cur_index
\* for a collision (the answer is that of the reference on the lines), and
\* then takes the one transition that the answer and cur_index select: on a
\* collision (cur_index, cur_length) becomes (cur_index - 1, L'), L' being
\* the reference suggestion; without a collision below the target it becomes
\* (cur_index + 1, 1); without a collision on the target the call returns
\* OK with solved_count = target + 1. Nothing else of the figure changes.
C35_LoopIsSpecifiedBacktracker ==
    [][Iteration =>
           /\ lines' = [lines EXCEPT ![current_index].length = current_length]
           /\ co_ord_cache'.validity = current_index + 1
           /\ Len(co_ord_cache'.co_ords)
                  = sxbp_sum_lines(lines', 0, current_index + 1) + 1
           /\ collides' <=> (Intersecting(lines', current_index) # {})
           /\ size' = size
           /\ IF collides'
              THEN /\ pc' = "resize"
                   /\ current_index' = current_index - 1
                   /\ current_length' =
                          ReferenceSuggestion(lines', TRUE, collider',
                                              current_index, perfection_threshold)
                   /\ UNCHANGED <<index, solved_count, result>>
              ELSE IF current_index # index
              THEN /\ pc' = "resize"
                   /\ current_index' = current_index + 1
                   /\ current_length' = 1
                   /\ UNCHANGED <<index, solved_count, result, collider>>
              ELSE /\ pc' \in {"resized", "idle"}
                   /\ result' = "OPERATION_OK"
                   /\ solved_count' = index + 1
                   /\ UNCHANGED collider]_vars

\* in a call with a perfection threshold the backtracker is back on the
\* target after a collision, a descent that lengthened the line before the
\* target to 3 or more, and a climb
C35_Witness ==
    /\ pc = "resize"
    /\ caller = "plot"
    /\ perfection_threshold > 0
    /\ ~collides
    /\ index >= 4
    /\ current_index = index
    /\ current_length = 1
    /\ lines[index - 1].length >= 3

\* C36: sxbp_change_direction gives, for each of the four directions and
\* each of the two rotations, the mathematical (d + r) mod 4, a direction
\* of 0..3; and so does it where sxbp_init_spiral applies it: every line
\* after line 0 has the direction of the line before it turned by the
\* rotation of its bit, UP turned anti-clockwise being LEFT.
C36_ChangeDirectionIsMod4 ==
    /\ \A d \in {SXBP_UP, SXBP_RIGHT, SXBP_DOWN, SXBP_LEFT} :
       \A r \in {CLOCKWISE, ANTI_CLOCKWISE} :
           /\ sxbp_change_direction(d, r) \in 0..3
           /\ sxbp_change_direction(d, r) = (d + r) % 4
    /\ sxbp_change_direction(SXBP_UP, ANTI_CLOCKWISE) = SXBP_LEFT
    /\ (pc # "blank") =>
           \A k \in 1..(size - 1) :
               LET r == IF MsbFirstBit(data, k - 1) = 0
                        THEN CLOCKWISE
                        ELSE ANTI_CLOCKWISE
               IN  /\ lines[k].direction \in 0..3
                   /\ lines[k].direction = (lines[k - 1].direction + r) % 4

\* sxbp_init_spiral has turned the UP of line 0 anti-clockwise into LEFT,
\* and a later UP clockwise into RIGHT
C36_Witness ==
    /\ pc = "idle"
    /\ solved_count = 0
    /\ size = 9
    /\ MsbFirstBit(data, 0) = 1
    /\ lines[0].direction = SXBP_UP
    /\ lines[1].direction = SXBP_LEFT
    /\ \E k \in 2..7 : /\ lines[k].direction = SXBP_UP
                       /\ lines[k + 1].direction = SXBP_RIGHT

\* C37: whenever the backtracker evaluates spiral_collides on line
\* cur_index, also right after a descent to a lower line, the cache holds
\* the vertices of lines 0..cur_index and nothing else: one more co-ord
\* than the sum of their lengths, each line ending where the lines put it,
\* and the last length + 1 co-ords being the points of line cur_index in
\* the order they are walked.
C37_CacheEndsAtTestedLine ==
    [][Iteration =>
           LET tested == lines'[current_index]
               from == StartIn(lines', current_index)
               v == VECTOR_DIRECTIONS[tested.direction]
               co_ords == co_ord_cache'.co_ords
               before == sxbp_sum_lines(lines', 0, current_index)
           IN  /\ Len(co_ords) = before + tested.length + 1
               /\ \A k \in 0..current_index :
                      At(co_ords, sxbp_sum_lines(lines', 0, k)) = StartIn(lines', k)
               /\ \A t \in 0..tested.length :
                      At(co_ords, before + t)
                          = <<from[1] + (t * v[1]), from[2] + (t * v[2])>>]_vars

\* the backtracker has just tested a line it descended to, while the cache
\* had held the vertices of the line above it: the cache now ends with the
\* rewritten line
C37_Witness ==
    /\ pc = "resize"
    /\ caller = "plot"
    /\ ~collides
    /\ current_index = index
    /\ index >= 4
    /\ lines[index - 1].length >= 2
    /\ co_ord_cache.validity = index
    /\ Len(co_ord_cache.co_ords) = LengthBefore(index) + 1

\* how far the point pt lies along direction d
Along(pt, d) ==
    (pt[1] * VECTOR_DIRECTIONS[d][1]) + (pt[2] * VECTOR_DIRECTIONS[d][2])

\* the far end of line rigid of lns as seen along direction d: the larger
\* of the positions of its two ends
FarEnd(lns, rigid, d) ==
    LET a == Along(StartIn(lns, rigid), d)
        b == Along(StartIn(lns, rigid + 1), d)
    IN  IF a > b THEN a ELSE b

\* C38: when suggest_resize takes the rules for parallel lines, the line
\* before the colliding one, given the suggested length, ends exactly one
\* lattice unit beyond the far end of the line collided with, measured
\* along its own direction; this for every pair of parallel directions.
C38_EndsOnePastFarEnd ==
    [][ParallelDescent =>
           LET d == lines'[current_index'].direction
           IN  Along(StartIn(lines', current_index'), d) + current_length'
                   = FarEnd(lines', collider', d) + 1]_vars

\* a suggestion by the rules for parallel lines has just been made for a
\* LEFT line before a collision with a RIGHT line: with it the LEFT line
\* ends one unit to the left of the start of the RIGHT line
C38_Witness ==
    /\ pc = "resize"
    /\ collides
    /\ current_index < index
    /\ ~AboveThreshold(lines[current_index + 1].length, perfection_threshold)
    /\ lines[current_index].direction = SXBP_LEFT
    /\ lines[collider].direction = SXBP_RIGHT
    /\ Along(StartIn(lines, current_index), SXBP_LEFT) + current_length
           = FarEnd(lines, collider, SXBP_LEFT) + 1

\* C39: when a run of the backtracker that sxbp_plot_spiral started for
\* line i returns OK, line i has length 1, whatever descents and climbs the
\* run made, and solved_count is i + 1; so between the iterations of the
\* for loop, in the progress callback and after the call has returned, the
\* last solved line has length 1.
C39_SolvedTargetHasLengthOne ==
    /\ [][(pc = "resize" /\ caller = "plot" /\ pc' = "resized") =>
              /\ lines'[index].length = 1
              /\ solved_count' = index + 1
              /\ index = i]_vars
    /\ []((pc \in {"idle", "loop", "resized", "callback"} /\ solved_count >= 1) =>
              (lines[solved_count - 1].length = 1))

\* a run for the last line of the spiral has returned OK after a descent
\* that lengthened the line before it
C39_Witness ==
    /\ pc = "resized"
    /\ solved_count = size
    /\ size = 9
    /\ lines[size - 1].length = 1
    /\ lines[size - 2].length >= 2

\* C40: whenever the backtracker finds a collision, the collider stored is
\* at least three lines before the colliding line, so that the rigid line
\* of suggest_resize is neither the line before the colliding one, whose
\* length it suggests, nor the line before that.
C40_ColliderThreeLinesBack ==
    [][CollisionFound =>
           /\ current_index >= 3
           /\ collider' \in 0..(current_index - 3)
           /\ collider' # current_index'
           /\ collider' # current_index' - 1]_vars

\* a collision has just been found with the line three places before the
\* colliding one, the nearest line that can be hit
C40_Witness ==
    /\ pc = "resize"
    /\ collides
    /\ current_index < index
    /\ current_index >= 3
    /\ collider = current_index - 2

====
